---- MODULE Spec2Model ----
(***************************************************************************)
(* A model of the BGP speaker: the supervisor's session table with its     *)
(* listener and per-peer dialers (src/src/server.py), and the per-session  *)
(* state machine with its receive loop, KeepAlive emitter and Hold         *)
(* watchdog tasks (src/src/session.py).                                    *)
(*                                                                         *)
(* All tasks run on one asyncio event loop: a task runs without            *)
(* interruption from one await to the next, so each action below is the    *)
(* code between two suspension points of one task.  Every `await           *)
(* writer.drain()` is a suspension point: the write has happened, the      *)
(* statements after the await have not.                                    *)
(***************************************************************************)
EXTENDS Integers, Sequences, FiniteSets, TLC

(* ---------------------------- bounds ----------------------------------- *)
\* session objects the model can allocate
MaxSess == 3
\* decoded messages the receive loops process, all sessions together
MaxRecv == 3
\* messages one session may have written when its KeepAlive emitter fires
MaxSent == 3

(* ------------------------ program constants ---------------------------- *)
OPEN == 1
UPDATE == 2
NOTIFICATION == 3
KEEPALIVE == 4

\* self.remote_as = None
None == -1

(* --------------------------- configuration ----------------------------- *)
\* source addresses an inbound connection can come from; 3 is not configured
IPs == {1, 2, 3}
\* the addresses config.peers may hold
PeerIPs == {1, 2}
\* config.local.asn
LocalAsn == 65001
\* config.local.router_id, a dotted quad
RouterId == <<1, 1, 1, 1>>
\* the values PeerConfig.hold_time may have, in seconds
HoldTimes == {0, 2}
\* the values config.originated_prefixes may have; a prefix "a.b.c.d/len"
\* is the tuple <<a, b, c, d, len>>
PrefixConfigs == { <<>>, << <<10, 0, 0, 0, 24>>, <<192, 168, 1, 77, 22>> >> }

SessIds == 1..MaxSess

VARIABLES
    peers,                \* config.peers: the configured peer addresses
    peer_hold_time,       \* PeerConfig.hold_time of each configured peer
    originated_prefixes,  \* config.originated_prefixes
    sessions,             \* BGPServer.sessions: peer ip -> session id, 0 = no entry
    ses,                  \* the BGPSession objects, by id
    dialer,               \* position of each connect_peer task
    rejected,             \* the listener has closed the stream of a connection it rejected
    mgmt,                 \* the management endpoint's handler and its connection
    codec                 \* a message or prefix list taken through the wire codec

vars == <<peers, peer_hold_time, originated_prefixes, sessions, ses, dialer, rejected,
          mgmt, codec>>

(* ------------------------------ codec ---------------------------------- *)
RECURSIVE Pad4(_)
\* prefix_bytes + b"\x00" * (4 - len(prefix_bytes))
Pad4(bytes) == IF Len(bytes) >= 4 THEN bytes ELSE Pad4(Append(bytes, 0))

\* data[a:b] of Python, 0-based, clipped to the data
Slice(data, a, b) ==
    LET hi == IF b > Len(data) THEN Len(data) ELSE b
    IN  IF a >= hi THEN <<>> ELSE SubSeq(data, a + 1, hi)

RECURSIVE encode_nlri_Floor(_)
\* encode_nlri keeping only the bytes the prefix length fills
encode_nlri_Floor(prefixes) ==
    IF prefixes = <<>> THEN <<>>
    ELSE LET p == Head(prefixes)
         IN  <<p[5]>> \o Slice(<<p[1], p[2], p[3], p[4]>>, 0, p[5] \div 8)
                \o encode_nlri_Floor(Tail(prefixes))

RECURSIVE encode_nlri(_)
\* UpdateMessage.encode_nlri: length byte, then the first ceil(len/8) bytes
encode_nlri(prefixes) ==
    IF prefixes = <<>> THEN <<>>
    ELSE LET p == Head(prefixes)
             length == p[5]
             num_bytes == (length + 7) \div 8
         IN  <<length>> \o Slice(<<p[1], p[2], p[3], p[4]>>, 0, num_bytes)
                \o encode_nlri(Tail(prefixes))

RECURSIVE DecodeNlri(_, _)
\* the NLRI loop of handle_update_msg; ok is FALSE when inet_ntoa is handed a
\* packed address that is not 4 bytes long (it raises)
DecodeNlri(data, idx) ==
    IF idx >= Len(data) THEN [ok |-> TRUE, prefixes |-> <<>>]
    ELSE LET length == data[idx + 1]
             num_bytes == (length + 7) \div 8
             prefix_bytes == Slice(data, idx + 1, idx + 1 + num_bytes)
             padded == Pad4(prefix_bytes)
             rest == DecodeNlri(data, idx + 1 + num_bytes)
         IN  IF Len(padded) # 4 \/ ~rest.ok THEN [ok |-> FALSE, prefixes |-> <<>>]
             ELSE [ok |-> TRUE,
                   prefixes |-> << <<padded[1], padded[2], padded[3], padded[4], length>> >>
                                   \o rest.prefixes]

\* next_hop = "Unknown"
UnknownHop == <<>>

RECURSIVE ParseAttrs(_, _, _)
\* the path attribute scan of handle_update_msg: the last NEXT_HOP value; ok is
\* FALSE when an index runs off the block or inet_ntoa rejected the value
ParseAttrs(pa, pidx, next_hop) ==
    IF pidx >= Len(pa) THEN [ok |-> TRUE, next_hop |-> next_hop]
    ELSE IF pidx + 1 >= Len(pa) THEN [ok |-> FALSE, next_hop |-> next_hop]
    ELSE LET flags == pa[pidx + 1]
             type_code == pa[pidx + 2]
             ext == (flags \div 16) % 2 = 1
         IN  IF (ext /\ pidx + 4 > Len(pa)) \/ (~ext /\ pidx + 3 > Len(pa))
             THEN [ok |-> FALSE, next_hop |-> next_hop]
             ELSE LET attr_len == IF ext THEN pa[pidx + 3] * 256 + pa[pidx + 4]
                                  ELSE pa[pidx + 3]
                      vidx == IF ext THEN pidx + 4 ELSE pidx + 3
                      attr_val == Slice(pa, vidx, vidx + attr_len)
                  IN  IF type_code = 3
                      THEN IF Len(attr_val) # 4 THEN [ok |-> FALSE, next_hop |-> next_hop]
                           ELSE ParseAttrs(pa, vidx + attr_len, attr_val)
                      ELSE ParseAttrs(pa, vidx + attr_len, next_hop)

\* a Route stored with origin "EGP"
Route_Egp(p, next_hop) == [prefix |-> p, next_hop |-> next_hop, as_path |-> <<>>, origin |-> "EGP"]

\* Route(prefix=p, next_hop=next_hop, as_path=[], origin="IGP")
Route(p, next_hop) == [prefix |-> p, next_hop |-> next_hop, as_path |-> <<>>, origin |-> "IGP"]

RECURSIVE Routes(_, _)
Routes(prefixes, next_hop) ==
    IF prefixes = <<>> THEN <<>>
    ELSE <<Route(Head(prefixes), next_hop)>> \o Routes(Tail(prefixes), next_hop)

(* ----------------------------- messages -------------------------------- *)
\* the dataclasses of protocol.py; opt_params, data and withdrawn_routes have
\* their default b""
OpenMessage(version, my_as, hold_time, bgp_identifier) ==
    [msg_type |-> OPEN, version |-> version, my_as |-> my_as,
     hold_time |-> hold_time, bgp_identifier |-> bgp_identifier, opt_params |-> <<>>]

KeepAliveMessage == [msg_type |-> KEEPALIVE]

NotificationMessage(error_code, error_subcode) ==
    [msg_type |-> NOTIFICATION, error_code |-> error_code,
     error_subcode |-> error_subcode, data |-> <<>>]

UpdateMessage(path_attributes, nlri) ==
    [msg_type |-> UPDATE, withdrawn_routes |-> <<>>,
     path_attributes |-> path_attributes, nlri |-> nlri]

\* no message processed yet
NoMsg == [msg_type |-> 0]

(* --------------------------- wire format ------------------------------- *)
\* the two bytes in little-endian order
U16_Swapped(x) == <<x % 256, x \div 256>>

\* struct.pack("!H", x)
U16(x) == <<x \div 256, x % 256>>

\* struct.pack("!I", x)
U32(x) == <<x \div 16777216, (x \div 65536) % 256, (x \div 256) % 256, x % 256>>

\* struct.unpack("!H", data[off : off + 2])[0]; the caller has checked that
\* the slice is two bytes long
U16At(data, off) == data[off + 1] * 256 + data[off + 2]

\* b"\xff" * 16
Marker == [i \in 1..16 |-> 255]

\* BGPHeader.pack writing the length of the payload alone
BGPHeader_pack_BodyLength(msg_type, payload) ==
    Marker \o U16(Len(payload)) \o <<msg_type>> \o payload

\* BGPHeader.pack
BGPHeader_pack(msg_type, payload) ==
    Marker \o U16(19 + Len(payload)) \o <<msg_type>> \o payload

\* BGPHeader.unpack; ok is FALSE when it raises ValueError
BGPHeader_unpack(data) ==
    IF Len(data) < 19
    THEN [ok |-> FALSE, type |-> 0, length |-> 0, payload |-> <<>>]
    ELSE IF SubSeq(data, 1, 16) # Marker
    THEN [ok |-> FALSE, type |-> 0, length |-> 0, payload |-> <<>>]
    ELSE [ok |-> TRUE, type |-> data[19], length |-> U16At(data, 16),
          payload |-> Slice(data, 19, U16At(data, 16))]

\* struct.unpack("!I", socket.inet_aton(ip))[0] of a dotted quad
BgpIdInt(ip) == ip[1] * 16777216 + ip[2] * 65536 + ip[3] * 256 + ip[4]

\* OpenMessage.pack
OpenMessage_pack(m) ==
    BGPHeader_pack(OPEN,
        <<m.version>> \o U16(m.my_as) \o U16(m.hold_time)
            \o U32(BgpIdInt(m.bgp_identifier)) \o <<Len(m.opt_params)>>
            \o m.opt_params)

\* OpenMessage.unpack; ok is FALSE when struct.unpack raises on a short body
OpenMessage_unpack(data) ==
    IF Len(Slice(data, 0, 10)) # 10 THEN [ok |-> FALSE, msg |-> NoMsg]
    ELSE [ok |-> TRUE,
          msg |-> [OpenMessage(data[1], U16At(data, 1), U16At(data, 3),
                               U32(BgpIdInt(Slice(data, 5, 9))))
                     EXCEPT !.opt_params = Slice(data, 10, 10 + data[10])]]

\* KeepAliveMessage.pack
KeepAliveMessage_pack(m) == BGPHeader_pack(KEEPALIVE, <<>>)

\* NotificationMessage.pack
NotificationMessage_pack(m) ==
    BGPHeader_pack(NOTIFICATION, <<m.error_code, m.error_subcode>> \o m.data)

\* NotificationMessage.unpack
NotificationMessage_unpack(data) ==
    IF Len(Slice(data, 0, 2)) # 2 THEN [ok |-> FALSE, msg |-> NoMsg]
    ELSE [ok |-> TRUE,
          msg |-> [NotificationMessage(data[1], data[2])
                     EXCEPT !.data = Slice(data, 2, Len(data))]]

\* UpdateMessage.pack
UpdateMessage_pack(m) ==
    BGPHeader_pack(UPDATE,
        U16(Len(m.withdrawn_routes)) \o m.withdrawn_routes
            \o U16(Len(m.path_attributes)) \o m.path_attributes \o m.nlri)

\* UpdateMessage.unpack
UpdateMessage_unpack(data) ==
    IF Len(Slice(data, 0, 2)) # 2 THEN [ok |-> FALSE, msg |-> NoMsg]
    ELSE LET w_len == U16At(data, 0)
             o1 == 2 + w_len
         IN  IF Len(Slice(data, o1, o1 + 2)) # 2 THEN [ok |-> FALSE, msg |-> NoMsg]
             ELSE LET pa_len == U16At(data, o1)
                      o2 == o1 + 2
                  IN  [ok |-> TRUE,
                       msg |-> [UpdateMessage(Slice(data, o2, o2 + pa_len),
                                              Slice(data, o2 + pa_len, Len(data)))
                                  EXCEPT !.withdrawn_routes = Slice(data, 2, 2 + w_len)]]

\* message.pack()
Pack(m) ==
    IF m.msg_type = OPEN THEN OpenMessage_pack(m)
    ELSE IF m.msg_type = UPDATE THEN UpdateMessage_pack(m)
    ELSE IF m.msg_type = NOTIFICATION THEN NotificationMessage_pack(m)
    ELSE KeepAliveMessage_pack(m)

\* parse_bgp_message on the bytes of a payload
ParsePayload(type, payload) ==
    IF type = OPEN THEN OpenMessage_unpack(payload)
    ELSE IF type = UPDATE THEN UpdateMessage_unpack(payload)
    ELSE IF type = NOTIFICATION THEN NotificationMessage_unpack(payload)
    ELSE IF type = KEEPALIVE THEN [ok |-> TRUE, msg |-> KeepAliveMessage]
    ELSE [ok |-> FALSE, msg |-> NoMsg]

(* ------------------------- received input ------------------------------ *)
\* the <<my_as, hold_time>> a received OPEN may carry
OpenParams == { <<65002, 0>>, <<65002, 1>>, <<0, 3>> }

\* header.length of a frame whose sender framed it with BGPHeader.pack: 19
\* and the length of the body of its type, a short body being one byte
FrameLength(type, short, path_attributes, nlri) ==
    IF short THEN 20
    ELSE IF type = OPEN THEN 29
    ELSE IF type = UPDATE THEN 23 + Len(path_attributes) + Len(nlri)
    ELSE IF type = NOTIFICATION THEN 21
    ELSE 19

\* header.length values no BGPHeader.pack of a BGP message produces: below
\* the header size, and above the 4096 bytes a BGP message may have
BadLengths == {18, 4097}

\* what the receive loop finds on the stream at one iteration: a frame (a
\* 19-byte header and its payload) or the end of the stream.  short: the
\* payload is shorter than the fixed part of the body of that type.
Frame(marker_ok, type, short, my_as, hold_time, path_attributes, nlri) ==
    [ev |-> "frame", marker_ok |-> marker_ok, type |-> type, short |-> short,
     my_as |-> my_as, hold_time |-> hold_time,
     path_attributes |-> path_attributes, nlri |-> nlri,
     length |-> FrameLength(type, short, path_attributes, nlri)]

StreamEnd(ev) == [Frame(TRUE, 0, FALSE, 0, 0, <<>>, <<>>) EXCEPT !.ev = ev]

\* the <<path_attributes, nlri>> a received UPDATE may carry:
\* NEXT_HOP 2.2.2.2 with 10.0.0.0/24; no attribute with 192.168.0.0/22 and
\* 0.0.0.0/0; a NEXT_HOP of length 2; a prefix length of 40 with five bytes
UpdateParams ==
    { << <<64, 3, 4, 2, 2, 2, 2>>, <<24, 10, 0, 0>> >>,
      << <<>>, <<22, 192, 168, 0, 0>> >>,
      << <<64, 3, 2, 2, 2>>, <<24, 10, 0, 0>> >>,
      << <<64, 3, 4, 2, 2, 2, 2>>, <<40, 1, 2, 3, 4, 5>> >> }

Inputs ==
    {Frame(TRUE, OPEN, FALSE, p[1], p[2], <<>>, <<>>) : p \in OpenParams}
    \cup {Frame(TRUE, KEEPALIVE, FALSE, 0, 0, <<>>, <<>>)}
    \cup {Frame(TRUE, NOTIFICATION, FALSE, 0, 0, <<>>, <<>>)}
    \cup {Frame(TRUE, UPDATE, FALSE, 0, 0, p[1], p[2]) : p \in UpdateParams}
    \cup {Frame(TRUE, t, TRUE, 0, 0, <<>>, <<>>) : t \in {OPEN, UPDATE, NOTIFICATION}}
    \cup {Frame(TRUE, 5, FALSE, 0, 0, <<>>, <<>>)}
    \cup {Frame(FALSE, KEEPALIVE, FALSE, 0, 0, <<>>, <<>>)}
    \cup {[Frame(TRUE, KEEPALIVE, FALSE, 0, 0, <<>>, <<>>) EXCEPT !.length = l] :
             l \in BadLengths}
    \cup {StreamEnd("eof"), StreamEnd("reset")}

\* parse_bgp_message: ok is FALSE when it raises (struct.error on a short
\* body, ValueError on an unknown type).  The payload it is given is the
\* header.length - 19 bytes read after the header, none when that is not
\* positive (session.py 150-154); KeepAliveMessage.unpack ignores it.
parse_bgp_message(f) ==
    IF f.type = OPEN
    THEN [ok |-> ~f.short, msg |-> OpenMessage(4, f.my_as, f.hold_time, <<2, 2, 2, 2>>)]
    ELSE IF f.type = UPDATE
    THEN [ok |-> ~f.short, msg |-> UpdateMessage(f.path_attributes, f.nlri)]
    ELSE IF f.type = NOTIFICATION
    THEN [ok |-> ~f.short, msg |-> NotificationMessage(6, 0)]
    ELSE IF f.type = KEEPALIVE
    THEN [ok |-> TRUE, msg |-> KeepAliveMessage]
    ELSE [ok |-> FALSE, msg |-> NoMsg]

(* ------------------------------ session -------------------------------- *)
\* BGPSession.__init__; created is FALSE for an object not yet allocated.
\* rpc, kpc, hpc: position of the receive loop, the KeepAlive emitter and the
\* Hold watchdog.  sent: the messages written to the stream, in order.
BGPSession(peer_ip, hold_time) ==
    [created |-> FALSE, owner |-> "none", peer_ip |-> peer_ip,
     state |-> "IDLE", hold_time |-> hold_time, negotiated_hold_time |-> 0,
     writer |-> FALSE, start_time |-> FALSE,
     keepalive_timer_task |-> FALSE, hold_timer_task |-> FALSE,
     hold_timer_reset_event |-> FALSE,
     msgs_sent |-> 0, msgs_received |-> 0, remote_as |-> None,
     adj_rib_in |-> <<>>,
     rpc |-> "none", kpc |-> "none", hpc |-> "none",
     sent |-> <<>>, open_hold |-> None,
     writer_closes |-> 0, keepalive_cancels |-> 0, hold_cancels |-> 0,
     hold_elapsed |-> 0, idle_ticks |-> 0]

\* Task.cancel(): a task that is still running gets CancelledError at its
\* await and ends; both loops catch it
Cancel(pc) == IF pc \in {"new", "sleep", "wait", "drain"} THEN "cancelled" ELSE pc

\* close_connection leaving the FSM state as it was
close_connection_KeepState(r) ==
    IF r.writer
    THEN [r EXCEPT !.writer_closes = @ + 1,
                   !.hold_elapsed = IF r.hold_timer_task THEN 0 ELSE @,
                   !.idle_ticks = IF r.hold_timer_task THEN 0 ELSE @,
                   !.kpc = IF r.keepalive_timer_task THEN Cancel(@) ELSE @,
                   !.keepalive_cancels = IF r.keepalive_timer_task THEN @ + 1 ELSE @,
                   !.hpc = IF r.hold_timer_task THEN Cancel(@) ELSE @,
                   !.hold_cancels = IF r.hold_timer_task THEN @ + 1 ELSE @]
    ELSE r

\* BGPSession.close_connection; the clock of a watchdog that has ended is
\* set back to 0
close_connection(r) ==
    IF r.writer
    THEN [r EXCEPT !.writer_closes = @ + 1,
                   !.hold_elapsed = IF r.hold_timer_task THEN 0 ELSE @,
                   !.idle_ticks = IF r.hold_timer_task THEN 0 ELSE @,
                   !.kpc = IF r.keepalive_timer_task THEN Cancel(@) ELSE @,
                   !.keepalive_cancels = IF r.keepalive_timer_task THEN @ + 1 ELSE @,
                   !.hpc = IF r.hold_timer_task THEN Cancel(@) ELSE @,
                   !.hold_cancels = IF r.hold_timer_task THEN @ + 1 ELSE @,
                   !.state = "IDLE"]
    ELSE r

\* BGPSession.send_message up to its await: writer.write(data)
send_message(r, message) ==
    IF r.writer THEN [r EXCEPT !.sent = Append(@, message)] ELSE r

\* send_open with the default hold time of BGPSession.__init__
send_open_DefaultHold(r) == send_message(r, OpenMessage(4, LocalAsn, 240, RouterId))

\* BGPSession.send_open
send_open(r) == send_message(r, OpenMessage(4, LocalAsn, r.hold_time, RouterId))

\* BGPSession.send_keepalive
send_keepalive(r) == send_message(r, KeepAliveMessage)

\* send_update announcing the first prefix only
send_update_FirstOnly(r, prefixes) ==
    send_message(r, UpdateMessage(
        <<64, 1, 1, 0>>
            \o <<64, 2, 4, 2, 1, LocalAsn \div 256, LocalAsn % 256>>
            \o (<<64, 3, 4>> \o RouterId),
        encode_nlri(<<Head(prefixes)>>)))

\* BGPSession.send_update when originated_prefixes is not empty; the path
\* attributes are ORIGIN IGP, AS_PATH [my_as], NEXT_HOP bgp_id
send_update(r, prefixes) ==
    send_message(r, UpdateMessage(
        <<64, 1, 1, 0>>
            \o <<64, 2, 4, 2, 1, LocalAsn \div 256, LocalAsn % 256>>
            \o (<<64, 3, 4>> \o RouterId),
        encode_nlri(prefixes)))

\* BGPSession.send_notification up to the await in send_message
send_notification(r, error_code, error_subcode) ==
    send_message(r, NotificationMessage(error_code, error_subcode))

\* connection_made going to the receive loop without sending an OPEN
connection_made_NoOpen(r) ==
    [r EXCEPT !.writer = TRUE, !.start_time = TRUE,
              !.state = "OPEN_SENT", !.rpc = "read"]

\* BGPSession.connection_made up to the await in send_open
connection_made(r) ==
    send_open([r EXCEPT !.writer = TRUE, !.start_time = TRUE,
                        !.state = "OPEN_SENT", !.rpc = "drain_open"])

\* BGPSession.handle_update_msg; ok is FALSE when it raises
handle_update_msg(r, msg) ==
    LET nl == DecodeNlri(msg.nlri, 0)
        at == ParseAttrs(msg.path_attributes, 0, UnknownHop)
    IN  IF nl.ok /\ at.ok
        THEN [ok |-> TRUE,
              r |-> [r EXCEPT !.adj_rib_in = @ \o Routes(nl.prefixes, at.next_hop)]]
        ELSE [ok |-> FALSE, r |-> r]

\* the negotiation keeping the configured hold time
Negotiate_Local(msg_hold_time, hold_time) == hold_time

\* the negotiation with the comparison reversed
Negotiate_Max(msg_hold_time, hold_time) ==
    IF msg_hold_time > hold_time THEN msg_hold_time ELSE hold_time

\* the hold time BGPSession.process_message negotiates from a received OPEN
Negotiate(msg_hold_time, hold_time) ==
    IF msg_hold_time < hold_time THEN msg_hold_time ELSE hold_time

\* process_message without hold_timer_reset_event.set()
CountAndResetHold_NoSet(r) ==
    [r EXCEPT !.msgs_received = @ + 1, !.idle_ticks = 0]

\* the head of BGPSession.process_message: count the message and set the
\* event the Hold watchdog waits on
CountAndResetHold(r) ==
    [r EXCEPT !.msgs_received = @ + 1, !.hold_timer_reset_event = TRUE, !.idle_ticks = 0]

\* BGPSession.process_message up to its first await (or to its end), with
\* the exception handlers of handle_incoming_messages around it
process_message(r0, msg, prefixes) ==
    LET r == CountAndResetHold(r0)
    IN  IF r.state = "OPEN_SENT"
        THEN IF msg.msg_type = OPEN
             THEN [send_keepalive(
                      [r EXCEPT !.negotiated_hold_time = Negotiate(msg.hold_time, r.hold_time),
                                !.remote_as = msg.my_as,
                                !.open_hold = msg.hold_time])
                   EXCEPT !.rpc = "drain_keepalive"]
             ELSE IF msg.msg_type = NOTIFICATION
             THEN close_connection(r)
             ELSE [send_notification(r, 5, 1) EXCEPT !.rpc = "drain_notif_fsm"]
        ELSE IF r.state = "OPEN_CONFIRM"
        THEN IF msg.msg_type = KEEPALIVE
             THEN IF prefixes # <<>>
                  THEN [send_update([r EXCEPT !.state = "ESTABLISHED"], prefixes)
                        EXCEPT !.rpc = "drain_update"]
                  ELSE [r EXCEPT !.state = "ESTABLISHED"]
             ELSE IF msg.msg_type = NOTIFICATION
             THEN close_connection(r)
             ELSE IF msg.msg_type = OPEN
             THEN [send_notification(r, 5, 1) EXCEPT !.rpc = "drain_notif_fsm"]
             ELSE r
        ELSE IF r.state = "ESTABLISHED"
        THEN IF msg.msg_type = UPDATE
             THEN LET u == handle_update_msg(r, msg)
                  IN  IF u.ok THEN u.r
                      ELSE [close_connection(r) EXCEPT !.rpc = "done"]
             ELSE IF msg.msg_type = NOTIFICATION
             THEN close_connection(r)
             ELSE r
        ELSE r

\* the receive loop returning on a bad header without a NOTIFICATION
handle_incoming_messages_SilentHeader(r, f, prefixes) ==
    IF f.ev \in {"eof", "reset"}
    THEN [close_connection(r) EXCEPT !.rpc = "done"]
    ELSE IF ~f.marker_ok
    THEN [close_connection(r) EXCEPT !.rpc = "done"]
    ELSE LET p == parse_bgp_message(f)
         IN  IF ~p.ok THEN [r EXCEPT !.rpc = "done"]
             ELSE process_message(r, p.msg, prefixes)

\* one iteration of the loop of BGPSession.handle_incoming_messages, from
\* readexactly(19) to the next await
handle_incoming_messages(r, f, prefixes) ==
    IF f.ev \in {"eof", "reset"}
    THEN [close_connection(r) EXCEPT !.rpc = "done"]
    ELSE IF ~f.marker_ok
    THEN [send_notification(r, 1, 1) EXCEPT !.rpc = "drain_notif_header"]
    ELSE LET p == parse_bgp_message(f)
         IN  IF ~p.ok THEN [r EXCEPT !.rpc = "done"]
             ELSE process_message(r, p.msg, prefixes)

\* the timer tasks created whatever the negotiated hold time
ArmTimers_Always(r) == TRUE

\* `if self.negotiated_hold_time > 0` before the timer tasks are created
ArmTimers(r) == r.negotiated_hold_time > 0

\* the code after `await self.writer.drain()` returned, up to the next await
AfterDrain(r0) ==
    LET r == [r0 EXCEPT !.msgs_sent = @ + 1, !.rpc = "read"]
    IN  IF r0.rpc = "drain_keepalive"
        THEN IF ArmTimers(r)
             THEN [r EXCEPT !.state = "OPEN_CONFIRM",
                            !.keepalive_timer_task = TRUE, !.kpc = "sleep",
                            !.hold_timer_task = TRUE, !.hpc = "new"]
             ELSE [r EXCEPT !.state = "OPEN_CONFIRM"]
        ELSE IF r0.rpc = "drain_notif_fsm"
        THEN close_connection(r)
        ELSE IF r0.rpc = "drain_notif_header"
        THEN [close_connection(r) EXCEPT !.rpc = "done"]
        ELSE r

RecvDrains == {"drain_open", "drain_keepalive", "drain_update",
               "drain_notif_fsm", "drain_notif_header"}

(* ----------------------------- supervisor ------------------------------ *)
\* session objects allocated so far
Created == {s \in SessIds : ses[s].created}

\* the id the next BGPSession(...) gets
NewId == Cardinality(Created) + 1

\* `session.state != "IDLE"` in connect_peer: session.state is a member of the
\* Enum BGPState, which never equals a str, so the comparison is always true
StateNotIdleStr(state) == TRUE

\* BGPSession(...); self.sessions[peer_ip] = session; session.connection_made(...)
\* up to its first await
NewSession(ip, owner) ==
    /\ NewId \in SessIds
    /\ ses' = [ses EXCEPT ![NewId] =
                  connection_made([BGPSession(ip, peer_hold_time[ip])
                                     EXCEPT !.created = TRUE, !.owner = owner])]
    /\ sessions' = [sessions EXCEPT ![ip] = NewId]

\* the listener accepting with only the config lookup
ListenerAdmits_ConfiguredOnly(ip) == ip \in peers

\* the listener's `if peer_ip in self.sessions` and peer_config lookup
ListenerAdmits(ip) == sessions[ip] = 0 /\ ip \in peers

\* BGPServer.handle_client up to its first await
handle_client(ip) ==
    IF ListenerAdmits(ip)
    THEN /\ NewSession(ip, "listener")
         /\ UNCHANGED <<mgmt, codec, peers, peer_hold_time, originated_prefixes, dialer, rejected>>
    ELSE /\ rejected' = TRUE
         /\ UNCHANGED <<mgmt, codec, peers, peer_hold_time, originated_prefixes, sessions, ses, dialer>>

\* connect_peer, top of the loop: sleep when the table has a session
DialTop(ip) ==
    /\ dialer[ip] = "top"
    /\ dialer' = [dialer EXCEPT ![ip] =
                    IF sessions[ip] # 0 /\ StateNotIdleStr(ses[sessions[ip]].state)
                    THEN "sleep_exists" ELSE "connecting"]
    /\ UNCHANGED <<mgmt, codec, peers, peer_hold_time, originated_prefixes, sessions, ses, rejected>>

\* connect_peer without the re-check of the table after open_connection
DialerAdmits_NoRecheck(ip) == TRUE

\* the dialer's re-check after open_connection returned
DialerAdmits(ip) == sessions[ip] = 0

\* connect_peer: open_connection succeeded
DialConnected(ip) ==
    /\ dialer[ip] = "connecting"
    /\ IF DialerAdmits(ip)
       THEN /\ NewSession(ip, "dialer")
            /\ dialer' = [dialer EXCEPT ![ip] = "session"]
            /\ UNCHANGED <<mgmt, codec, peers, peer_hold_time, originated_prefixes, rejected>>
       ELSE /\ dialer' = [dialer EXCEPT ![ip] = "sleep_race"]
            /\ UNCHANGED <<mgmt, codec, peers, peer_hold_time, originated_prefixes, sessions, ses, rejected>>

\* connect_peer returning after a failed connect
DialFailed_GiveUp(ip) ==
    /\ dialer[ip] = "connecting"
    /\ dialer' = [dialer EXCEPT ![ip] = "exited"]
    /\ UNCHANGED <<mgmt, codec, peers, peer_hold_time, originated_prefixes, sessions, ses, rejected>>

\* connect_peer: open_connection raised
DialFailed(ip) ==
    /\ dialer[ip] = "connecting"
    /\ dialer' = [dialer EXCEPT ![ip] = "sleep_fail"]
    /\ UNCHANGED <<mgmt, codec, peers, peer_hold_time, originated_prefixes, sessions, ses, rejected>>

\* connect_peer: asyncio.sleep(5) returned
DialSleepDone(ip) ==
    /\ dialer[ip] \in {"sleep_exists", "sleep_race", "sleep_fail"}
    /\ dialer' = [dialer EXCEPT ![ip] = "top"]
    /\ UNCHANGED <<mgmt, codec, peers, peer_hold_time, originated_prefixes, sessions, ses, rejected>>

(* --------------------------- session tasks ----------------------------- *)
\* a step of a task of session s in which a close of s closes every other
\* session too
SessionStep_SharedClose(s, r) ==
    /\ ses' = [t \in SessIds |->
                  IF t = s THEN r
                  ELSE IF r.writer_closes > ses[s].writer_closes
                  THEN close_connection(ses[t])
                  ELSE ses[t]]
    /\ dialer' = IF r.rpc = "done" /\ r.owner = "dialer"
                 THEN [dialer EXCEPT ![r.peer_ip] = "exited"]
                 ELSE dialer
    /\ UNCHANGED <<mgmt, codec, peers, peer_hold_time, originated_prefixes, sessions, rejected>>

\* a step of a task of session s; when it ends the receive loop of a session
\* the dialer attached, connection_made returns into connect_peer, which
\* returns (server.py 108-109)
SessionStep(s, r) ==
    /\ ses' = [ses EXCEPT ![s] = r]
    /\ dialer' = IF r.rpc = "done" /\ r.owner = "dialer"
                 THEN [dialer EXCEPT ![r.peer_ip] = "exited"]
                 ELSE dialer
    /\ UNCHANGED <<mgmt, codec, peers, peer_hold_time, originated_prefixes, sessions, rejected>>

\* f reaches process_message
Decodes(f) == f.ev = "frame" /\ f.marker_ok /\ parse_bgp_message(f).ok

RECURSIVE SumReceived(_)
SumReceived(S) ==
    IF S = {} THEN 0
    ELSE LET s == CHOOSE x \in S : TRUE
         IN  ses[s].msgs_received + SumReceived(S \ {s})

\* messages all receive loops have processed
TotalReceived == SumReceived(SessIds)

\* receive loop: one iteration on input f
Recv(s, f) ==
    /\ ses[s].rpc = "read"
    /\ Decodes(f) => TotalReceived < MaxRecv
    /\ SessionStep(s, handle_incoming_messages(ses[s], f, originated_prefixes))

\* receive loop: drain() returned
RecvDrainDone(s) ==
    /\ ses[s].rpc \in RecvDrains
    /\ SessionStep(s, AfterDrain(ses[s]))

\* receive loop: drain() raised ConnectionResetError, which it does only on a
\* stream that was closed
RecvDrainFailed(s) ==
    /\ ses[s].rpc \in RecvDrains
    /\ ses[s].writer_closes > 0
    /\ SessionStep(s, [close_connection(ses[s]) EXCEPT !.rpc = "done"])

\* BGPSession.keepalive_loop: sleep(interval) returned
keepalive_loop(r) ==
    IF r.state \in {"OPEN_CONFIRM", "ESTABLISHED"}
    THEN [send_keepalive(r) EXCEPT !.kpc = "drain"]
    ELSE r

KeepaliveFire(s) ==
    /\ ses[s].kpc = "sleep"
    /\ Len(ses[s].sent) < MaxSent
    /\ SessionStep(s, keepalive_loop(ses[s]))

\* keepalive_loop: drain() returned
KeepaliveDrainDone(s) ==
    /\ ses[s].kpc = "drain"
    /\ SessionStep(s, [ses[s] EXCEPT !.msgs_sent = @ + 1, !.kpc = "sleep"])

\* BGPSession.hold_timer_loop, top of the loop: clear the event and wait on
\* it for negotiated_hold_time
hold_timer_loop(r) ==
    [r EXCEPT !.hold_timer_reset_event = FALSE, !.hold_elapsed = 0, !.hpc = "wait"]

\* the watchdog task starts, or the event it waits on was set
HoldArm(s) ==
    /\ \/ ses[s].hpc = "new"
       \/ ses[s].hpc = "wait" /\ ses[s].hold_timer_reset_event
    /\ SessionStep(s, hold_timer_loop(ses[s]))

\* hold_timer_loop: wait_for timed out
HoldExpire(s) ==
    /\ ses[s].hpc = "wait"
    /\ ~ses[s].hold_timer_reset_event
    /\ ses[s].hold_elapsed = ses[s].negotiated_hold_time
    /\ SessionStep(s, [send_notification(ses[s], 4, 0)
                         EXCEPT !.hpc = "drain"])

\* hold_timer_loop: drain() of the NOTIFICATION returned
HoldDrainDone(s) ==
    /\ ses[s].hpc = "drain"
    /\ SessionStep(s, [close_connection([ses[s] EXCEPT !.msgs_sent = @ + 1])
                         EXCEPT !.hpc = "done"])

\* one second passes while the watchdog waits; a pending wake-up or timeout
\* is delivered before more time passes
Tick(s) ==
    /\ ses[s].hpc = "wait"
    /\ ~ses[s].hold_timer_reset_event
    /\ ses[s].hold_elapsed < ses[s].negotiated_hold_time
    /\ SessionStep(s, [ses[s] EXCEPT !.hold_elapsed = @ + 1, !.idle_ticks = @ + 1])

(* ------------------------ management endpoint ------------------------- *)
\* what reader.read(4096) returns: kind is "empty" for b"", "malformed" for
\* bytes json.loads rejects, "not_object" for JSON that is not an object,
\* "object" for an object, whose "command" value is command ("none": no such key)
Request(kind, command) == [kind |-> kind, command |-> command]

NoRequest == Request("none", "none")

MgmtRequests ==
    {Request("empty", "none"), Request("malformed", "none"), Request("not_object", "none")}
    \cup {Request("object", c) : c \in {"show_neighbors", "show_routes_received",
                                        "show_routes_advertised", "show_version", "none"}}

\* no management connection has been handled yet
MgmtIdle ==
    [pc |-> "idle", request |-> NoRequest, written |-> <<>>, responses |-> 0,
     closed |-> FALSE]

RECURSIVE SessionsValues(_)
\* self.bgp_server.sessions.values(): the sessions of the table in the order
\* they were inserted, which is the order they were created in
SessionsValues(S) ==
    IF S = {} THEN <<>>
    ELSE LET s == CHOOSE x \in S : \A y \in S : x <= y
         IN  <<ses[s]>> \o SessionsValues(S \ {s})

\* the session ids the table holds
TableIds == {sessions[ip] : ip \in IPs} \ {0}

\* `session.remote_as or 0`
OrZero(x) == IF x = None THEN 0 ELSE x

\* the uptime reported for every session that has a start_time
uptime_str_Started(r) == IF r.start_time THEN "H:MM:SS" ELSE "N/A"

\* uptime_str of show_neighbors; "H:MM:SS" stands for str(delta).split(".")[0]
uptime_str(r) ==
    IF r.start_time /\ r.state = "ESTABLISHED" THEN "H:MM:SS" ELSE "N/A"

\* one element of neighbors; peer_ip is session.bgp_id
Neighbor(r) ==
    [peer_ip |-> RouterId, remote_as |-> OrZero(r.remote_as), state |-> r.state,
     uptime |-> uptime_str(r), msgs_sent |-> r.msgs_sent,
     msgs_received |-> r.msgs_received]

\* the neighbors list of show_neighbors
Neighbors ==
    LET vs == SessionsValues(TableIds)
    IN  [i \in 1..Len(vs) |-> Neighbor(vs[i])]

\* str(route.as_path)
StrList(l) == IF l = <<>> THEN "[]" ELSE "[..]"

\* one element of routes
ReceivedRoute(r, route) ==
    [prefix |-> route.prefix, next_hop |-> route.next_hop,
     as_path |-> StrList(route.as_path), origin |-> route.origin,
     remote_as |-> OrZero(r.remote_as), received_from |-> RouterId]

RECURSIVE ReceivedRoutes(_)
\* the routes list of show_routes_received, over a list of sessions
ReceivedRoutes(vs) ==
    IF vs = <<>> THEN <<>>
    ELSE [i \in 1..Len(Head(vs).adj_rib_in) |->
             ReceivedRoute(Head(vs), Head(vs).adj_rib_in[i])]
         \o ReceivedRoutes(Tail(vs))

Success(data) == [status |-> "success", data |-> data]

Error(message) == [status |-> "error", message |-> message]

\* the dispatch answering every command with success
Dispatch_AlwaysSuccess(command) == Success(<<>>)

\* the if / elif chain of ManagementServer.handle_client on request["command"]
Dispatch(command) ==
    IF command = "show_neighbors" THEN Success(Neighbors)
    ELSE IF command = "show_routes_received"
    THEN Success(ReceivedRoutes(SessionsValues(TableIds)))
    ELSE IF command = "show_routes_advertised" THEN Success(originated_prefixes)
    ELSE Error("Unknown command")

\* the response ManagementServer.handle_client writes for non-empty data; the
\* except branch answers with str(e)
Respond(req) ==
    IF req.kind \in {"malformed", "not_object"} THEN Error("str(e)")
    ELSE Dispatch(req.command)

\* a handler that empties the session table when it has answered
MgmtRead_Clears(req) ==
    /\ mgmt.pc = "idle"
    /\ mgmt' = IF req.kind = "empty"
               THEN [MgmtIdle EXCEPT !.closed = TRUE]
               ELSE [pc |-> "drain", request |-> req, written |-> <<Respond(req)>>,
                     responses |-> 1, closed |-> FALSE]
    /\ sessions' = [ip \in IPs |-> 0]
    /\ UNCHANGED <<codec, peers, peer_hold_time, originated_prefixes, ses,
                   dialer, rejected>>

\* ManagementServer.handle_client from the accepted connection to its first
\* await after reader.read: on b"" it returns through `finally`, otherwise it
\* writes one response and awaits drain
MgmtRead(req) ==
    /\ mgmt.pc = "idle"
    /\ mgmt' = IF req.kind = "empty"
               THEN [MgmtIdle EXCEPT !.closed = TRUE]
               ELSE [pc |-> "drain", request |-> req, written |-> <<Respond(req)>>,
                     responses |-> 1, closed |-> FALSE]
    /\ UNCHANGED <<codec, peers, peer_hold_time, originated_prefixes, sessions, ses,
                   dialer, rejected>>

\* ManagementServer.handle_client: drain returned; finally: writer.close()
MgmtDrainDone ==
    /\ mgmt.pc = "drain"
    /\ mgmt' = [MgmtIdle EXCEPT !.responses = mgmt.responses, !.closed = TRUE]
    /\ UNCHANGED <<codec, peers, peer_hold_time, originated_prefixes, sessions, ses,
                   dialer, rejected>>

(* ---------------------------- codec runs ------------------------------- *)
\* prefixes in a list handed to encode_nlri
MaxPrefixes == 2

\* prefixes "a.b.c.d/len"; 192.168.1.77/22 has a non-zero byte after the
\* bytes its length covers, 10.1.2.129/25 a non-zero bit after its length
PrefixPool ==
    { <<10, 0, 0, 0, 24>>, <<192, 168, 0, 0, 22>>, <<0, 0, 0, 0, 0>>,
      <<10, 1, 2, 3, 32>>, <<10, 1, 2, 129, 25>>, <<192, 168, 1, 77, 22>> }

PrefixLists == UNION {[1..n -> PrefixPool] : n \in 0..MaxPrefixes}

\* router ids are drawn below 128.0.0.0 so that the 32-bit value of
\* inet_aton stays within the integers of the model
CodecMessages ==
    {OpenMessage(v, a, h, r) :
        v \in {4, 255}, a \in {0, 65001, 65535}, h \in {0, 180, 65535},
        r \in {<<1, 1, 1, 1>>, <<10, 0, 0, 255>>, <<127, 255, 255, 255>>}}
    \cup {[NotificationMessage(c, sc) EXCEPT !.data = d] :
             c \in {1, 6}, sc \in {0, 2}, d \in {<<>>, <<69, 114, 114>>}}
    \cup {[UpdateMessage(pa, n) EXCEPT !.withdrawn_routes = w] :
             w \in {<<>>, <<24, 10, 0, 0>>}, pa \in {<<>>, <<64, 1, 1, 0>>},
             n \in {<<>>, <<24, 10, 0, 0>>, <<0>>}}

\* nothing was taken through the codec
CodecIdle ==
    [pc |-> "idle", msg |-> NoMsg, prefixes |-> <<>>, data |-> <<>>, type |-> 0,
     out |-> [ok |-> FALSE, msg |-> NoMsg],
     decoded |-> [ok |-> FALSE, prefixes |-> <<>>],
     payload |-> <<>>,
     header |-> [ok |-> FALSE, type |-> 0, length |-> 0, payload |-> <<>>]]

\* message types given to BGPHeader.pack: the four of the protocol and
\* other values of an unsigned byte
HeaderTypes == {0, OPEN, UPDATE, NOTIFICATION, KEEPALIVE, 5, 255}

\* payloads given to BGPHeader.pack: none, b"1234", and one whose framed
\* length needs both bytes of the length field
HeaderPayloads == {<<>>, <<49, 50, 51, 52>>, [i \in 1..300 |-> i % 256]}

\* buffers given to BGPHeader.unpack that pack did not produce: shorter than
\* a header, and of header size or more with a byte of the first sixteen
\* that is not 0xFF
HeaderBuffers ==
    {[i \in 1..n |-> 255] : n \in {0, 1, 16, 18}}
    \cup {Marker \o <<0, 19>>}
    \cup {[BGPHeader_pack(t, p) EXCEPT ![k] = b] :
             t \in {KEEPALIVE}, p \in {<<>>, <<49, 50, 51, 52>>},
             k \in {1, 8, 16}, b \in {0, 254}}

CodecInputs ==
    {[CodecIdle EXCEPT !.pc = "message", !.msg = m] : m \in CodecMessages}
    \cup {[CodecIdle EXCEPT !.pc = "prefixes", !.prefixes = l] : l \in PrefixLists}
    \cup {[CodecIdle EXCEPT !.pc = "payload", !.type = t, !.payload = p] :
             t \in HeaderTypes, p \in HeaderPayloads}
    \cup {[CodecIdle EXCEPT !.pc = "buffer", !.data = d] : d \in HeaderBuffers}

CodecStep(c) ==
    /\ codec' = c
    /\ UNCHANGED <<mgmt, peers, peer_hold_time, originated_prefixes, sessions, ses,
                   dialer, rejected>>

\* packed = msg.pack()
CodecPack ==
    /\ codec.pc = "message"
    /\ CodecStep([codec EXCEPT !.pc = "packed", !.data = Pack(codec.msg)])

\* header, payload = BGPHeader.unpack(packed); unpacked = <Message>.unpack(payload)
CodecUnpack ==
    /\ codec.pc = "packed"
    /\ LET h == BGPHeader_unpack(codec.data)
       IN  CodecStep([codec EXCEPT !.pc = "unpacked", !.type = h.type,
                         !.out = IF h.ok THEN ParsePayload(h.type, h.payload)
                                 ELSE [ok |-> FALSE, msg |-> NoMsg]])

\* nlri = UpdateMessage.encode_nlri(prefixes)
CodecEncodeNlri ==
    /\ codec.pc = "prefixes"
    /\ CodecStep([codec EXCEPT !.pc = "encoded", !.data = encode_nlri(codec.prefixes)])

\* the NLRI loop of handle_update_msg on those bytes
CodecDecodeNlri ==
    /\ codec.pc = "encoded"
    /\ CodecStep([codec EXCEPT !.pc = "decoded", !.decoded = DecodeNlri(codec.data, 0)])

\* header = BGPHeader.pack(msg_type, payload)
CodecHeaderPack ==
    /\ codec.pc = "payload"
    /\ CodecStep([codec EXCEPT !.pc = "framed",
                                !.data = BGPHeader_pack(codec.type, codec.payload)])

\* header, payload = BGPHeader.unpack(data), of a packed header ("unframed")
\* and of any other buffer ("scanned")
CodecHeaderUnpack ==
    /\ codec.pc \in {"framed", "buffer"}
    /\ CodecStep([codec EXCEPT !.pc = IF codec.pc = "framed" THEN "unframed"
                                      ELSE "scanned",
                                !.header = BGPHeader_unpack(codec.data)])

(* --------------------------- specification ----------------------------- *)
\* BGPServer.__init__ and the dialer tasks BGPServer.start creates
InitConfig(config_peers) ==
    /\ peers = config_peers
    /\ peer_hold_time \in [config_peers -> HoldTimes]
    /\ originated_prefixes \in PrefixConfigs
    /\ sessions = [ip \in IPs |-> 0]
    /\ ses = [s \in SessIds |-> BGPSession(0, 0)]
    /\ dialer = [ip \in config_peers |-> "top"]
    /\ rejected = FALSE
    /\ mgmt = MgmtIdle

\* one configured peer
Init == InitConfig({1}) /\ codec = CodecIdle

Next ==
    \/ \E ip \in IPs : handle_client(ip)
    \/ \E ip \in peers : DialTop(ip)
    \/ \E ip \in peers : DialConnected(ip)
    \/ \E ip \in peers : DialFailed(ip)
    \/ \E ip \in peers : DialSleepDone(ip)
    \/ \E s \in SessIds, f \in Inputs : Recv(s, f)
    \/ \E s \in SessIds : RecvDrainDone(s)
    \/ \E s \in SessIds : RecvDrainFailed(s)
    \/ \E s \in SessIds : KeepaliveFire(s)
    \/ \E s \in SessIds : KeepaliveDrainDone(s)
    \/ \E s \in SessIds : HoldArm(s)
    \/ \E s \in SessIds : HoldExpire(s)
    \/ \E s \in SessIds : HoldDrainDone(s)
    \/ \E s \in SessIds : Tick(s)

Spec == Init /\ [][Next]_vars

\* one configured peer with a hold time of 2 and two originated prefixes
InitTimed ==
    /\ InitConfig({1})
    /\ peer_hold_time[1] = 2
    /\ originated_prefixes # <<>>
    /\ codec = CodecIdle

\* the event loop resumes the watchdog when its timeout is due and when the
\* drain it awaits has completed
SpecFair ==
    /\ InitTimed
    /\ [][Next]_vars
    /\ \A s \in SessIds : WF_vars(HoldExpire(s)) /\ WF_vars(HoldDrainDone(s))

\* the dialer's loop keeps running, and a connect that can succeed again and
\* again does succeed
SpecDial ==
    /\ InitTimed
    /\ [][Next]_vars
    /\ \A ip \in PeerIPs :
          /\ WF_vars(ip \in peers /\ DialTop(ip))
          /\ WF_vars(ip \in peers /\ DialSleepDone(ip))
          /\ SF_vars(ip \in peers /\ DialConnected(ip))

\* the steps of the management handler read the sessions and write only its
\* own connection, and after its drain it only closes that connection; the
\* session steps that fall into the drain are taken after it
NextMgmt ==
    \/ mgmt.pc = "idle" /\ Next
    \/ \E req \in MgmtRequests : MgmtRead(req)
    \/ MgmtDrainDone

SpecMgmt == InitTimed /\ [][NextMgmt]_vars

\* one message or one prefix list and no session
InitCodec ==
    /\ InitConfig({1})
    /\ peer_hold_time[1] = 2
    /\ originated_prefixes = <<>>
    /\ codec \in CodecInputs

NextCodec ==
    \/ CodecPack
    \/ CodecUnpack
    \/ CodecEncodeNlri
    \/ CodecDecodeNlri
    \/ CodecHeaderPack
    \/ CodecHeaderUnpack

SpecCodec == InitCodec /\ [][NextCodec]_vars

\* two configured peers, one with a hold time of 2 and one with none
InitPair ==
    /\ InitConfig({1, 2})
    /\ peer_hold_time = (1 :> 2) @@ (2 :> 0)
    /\ originated_prefixes # <<>>
    /\ codec = CodecIdle

\* the listener and the tasks of the sessions it admits, while both dialers
\* have not been given a connection
NextPair ==
    \/ \E ip \in IPs : handle_client(ip)
    \/ \E s \in SessIds, f \in Inputs : Recv(s, f)
    \/ \E s \in SessIds : RecvDrainDone(s)
    \/ \E s \in SessIds : RecvDrainFailed(s)
    \/ \E s \in SessIds : KeepaliveFire(s)
    \/ \E s \in SessIds : KeepaliveDrainDone(s)
    \/ \E s \in SessIds : HoldArm(s)
    \/ \E s \in SessIds : HoldExpire(s)
    \/ \E s \in SessIds : HoldDrainDone(s)
    \/ \E s \in SessIds : Tick(s)

SpecPair == InitPair /\ [][NextPair]_vars

(* ------------------------------ claims --------------------------------- *)
\* a timer task that was created and has neither finished nor been cancelled
Live == {"new", "sleep", "wait", "drain"}

Min(a, b) == IF a <= b THEN a ELSE b

RECURSIVE CountType(_, _)
\* messages of type t in the sequence of written messages
CountType(sent, t) ==
    IF sent = <<>> THEN 0
    ELSE (IF Head(sent).msg_type = t THEN 1 ELSE 0) + CountType(Tail(sent), t)

\* message number i of sent is NOTIFICATION(code, subcode)
IsNotification(m, code, subcode) ==
    m.msg_type = NOTIFICATION /\ m.error_code = code /\ m.error_subcode = subcode

\* C1: under every interleaving of listener accepts and dialer connects, an
\* entry of the session table is never overwritten or removed, a session is
\* created only for an address the table has no entry for, and no two
\* sessions with an attached stream have the same peer address.
C1_OneSessionPerPeer ==
    [][ /\ \A ip \in IPs : sessions[ip] # 0 => sessions'[ip] = sessions[ip]
        /\ \A s \in SessIds :
              (~ses[s].created /\ ses'[s].created)
                 => sessions[ses'[s].peer_ip] = 0 /\ sessions'[ses'[s].peer_ip] = s
        /\ \A s, t \in SessIds :
              (s # t /\ ses'[s].writer /\ ses'[t].writer)
                 => ses'[s].peer_ip # ses'[t].peer_ip ]_vars

\* the dialer connected after the listener had inserted a session for its peer
C1_Witness ==
    \E ip \in PeerIPs :
        /\ ip \in DOMAIN dialer
        /\ dialer[ip] = "sleep_race"
        /\ sessions[ip] # 0
        /\ ses[sessions[ip]].owner = "listener"

\* C2: whatever paths call close_connection, the stream is closed exactly
\* once and each timer task is cancelled exactly once, and the state is IDLE
\* after a close.
C2_CloseOnce ==
    \A s \in SessIds :
        /\ ses[s].writer_closes <= 1
        /\ ses[s].keepalive_cancels <= 1
        /\ ses[s].hold_cancels <= 1
        /\ ses[s].writer_closes > 0 => ses[s].state = "IDLE"

\* C3: whenever connection_made has returned, the state is IDLE.
C3_ReturnedIsIdle ==
    \A s \in SessIds : ses[s].rpc = "done" => ses[s].state = "IDLE"

\* the session is closed: stream closed, no live timer task, state IDLE
IsClosed(r) ==
    /\ r.writer_closes >= 1
    /\ r.kpc \notin Live
    /\ r.hpc \notin Live
    /\ r.state = "IDLE"

\* the failure of the receive loop on input f: incomplete read, connection
\* reset, marker mismatch, body decode failure; "none" when f is processed
FailureKind(f) ==
    IF f.ev = "eof" THEN "incomplete_read"
    ELSE IF f.ev = "reset" THEN "connection_reset"
    ELSE IF ~f.marker_ok THEN "marker_mismatch"
    ELSE IF ~parse_bgp_message(f).ok THEN "decode_failure"
    ELSE "none"

\* C4: each of incomplete read, connection reset, body decode failure and
\* marker mismatch closes the session: when the receive loop has dealt with
\* the failure the stream is closed, no timer task is live and the state is IDLE.
C4_FailuresClose ==
    [][ \A s \in SessIds :
          /\ \A f \in Inputs :
                (/\ ses[s].rpc = "read" /\ ses'[s].rpc # "read"
                 /\ FailureKind(f) \in
                       {"incomplete_read", "connection_reset", "decode_failure"}
                 /\ Recv(s, f))
                   => IsClosed(ses'[s])
          /\ (ses[s].rpc = "drain_notif_header" /\ ses'[s].rpc # "drain_notif_header")
                => IsClosed(ses'[s]) ]_vars

\* C5: a live timer task exists only in OPEN_CONFIRM or ESTABLISHED and only
\* with a negotiated hold time above 0.
C5_TimersOnlyWhenUp ==
    \A s \in SessIds :
        (ses[s].kpc \in Live \/ ses[s].hpc \in Live)
           => /\ ses[s].state \in {"OPEN_CONFIRM", "ESTABLISHED"}
              /\ ses[s].negotiated_hold_time > 0

\* both timer tasks are live in ESTABLISHED, and a session whose negotiated
\* hold time is 0 is ESTABLISHED without them
C5_Witness ==
    \E s \in SessIds :
        /\ ses[s].state = "ESTABLISHED"
        /\ ses[s].kpc \in Live
        /\ ses[s].hpc = "wait"

\* C6: ESTABLISHED implies remote_as is set from a received OPEN and
\* negotiated_hold_time is min(configured hold time, hold time of that OPEN).
C6_EstablishedNegotiated ==
    \A s \in SessIds :
        ses[s].state = "ESTABLISHED"
           => /\ ses[s].remote_as # None
              /\ ses[s].open_hold # None
              /\ ses[s].negotiated_hold_time = Min(ses[s].hold_time, ses[s].open_hold)

\* ESTABLISHED after an OPEN whose hold time was below the configured one
C6_Witness ==
    \E s \in SessIds :
        /\ ses[s].state = "ESTABLISHED"
        /\ ses[s].open_hold = 1
        /\ ses[s].hold_time = 2

\* C7: attaching takes the session from IDLE to OPEN_SENT and writes one OPEN
\* with version 4, the local AS, the configured hold time and the router id,
\* before any message is processed; no session writes a second OPEN.
C7_AttachSendsOneOpen ==
    [][ \A s \in SessIds :
          /\ (ses[s].rpc = "none" /\ ses'[s].rpc # "none")
                => /\ ses[s].state = "IDLE"
                   /\ ses'[s].state = "OPEN_SENT"
                   /\ ses'[s].msgs_received = 0
                   /\ ses'[s].sent =
                        <<OpenMessage(4, LocalAsn, peer_hold_time[ses'[s].peer_ip], RouterId)>>
          /\ (ses'[s].rpc # "none" /\ ses'[s].sent # ses[s].sent)
                => /\ CountType(ses'[s].sent, OPEN) = 1
                   /\ ses'[s].sent[1].msg_type = OPEN ]_vars

\* an attached session that has processed a message and written a second one
C7_Witness ==
    \E s \in SessIds :
        /\ ses[s].rpc = "read"
        /\ ses[s].msgs_received > 0
        /\ Len(ses[s].sent) >= 2

\* C8: in OPEN_SENT, processing an OPEN with hold time h and AS a sets
\* negotiated_hold_time to min(local hold time, h) and remote_as to a, writes
\* one KEEPALIVE and makes the state OPEN_CONFIRM.
C8_OpenInOpenSent ==
    [][ \A s \in SessIds :
          /\ \A f \in Inputs :
                (/\ ses[s].rpc = "read" /\ ses[s].state = "OPEN_SENT"
                 /\ ses'[s] # ses[s]
                 /\ FailureKind(f) = "none" /\ f.type = OPEN
                 /\ Recv(s, f))
                   => /\ ses'[s].negotiated_hold_time = Min(ses[s].hold_time, f.hold_time)
                      /\ ses'[s].remote_as = f.my_as
                      /\ ses'[s].sent = Append(ses[s].sent, KeepAliveMessage)
                      /\ ses'[s].rpc = "drain_keepalive"
                      /\ (ses[s].hold_time = 0 \/ f.hold_time = 0)
                            => ses'[s].negotiated_hold_time = 0
          /\ (ses[s].rpc = "drain_keepalive" /\ ses'[s].rpc # "drain_keepalive")
                => /\ ses'[s].state = "OPEN_CONFIRM"
                   /\ ses'[s].sent = ses[s].sent
                   /\ CountType(ses'[s].sent, KEEPALIVE) = 1
                   /\ ses'[s].negotiated_hold_time = ses[s].negotiated_hold_time
                   /\ ses'[s].remote_as = ses[s].remote_as ]_vars

\* OPEN_CONFIRM with a configured hold time of 0 and an OPEN that carried 3
C8_Witness ==
    \E s \in SessIds :
        /\ ses[s].state = "OPEN_CONFIRM"
        /\ ses[s].hold_time = 0
        /\ ses[s].open_hold = 3
        /\ ses[s].negotiated_hold_time = 0

\* the NLRI bytes hold one entry per prefix, in order, each with the prefix
\* length and the bytes of the address that the length covers
NlriHolds(nlri, prefixes) ==
    LET d == DecodeNlri(nlri, 0)
    IN  /\ d.ok
        /\ Len(d.prefixes) = Len(prefixes)
        /\ \A i \in 1..Len(prefixes) :
              /\ d.prefixes[i][5] = prefixes[i][5]
              /\ \A k \in 1..((prefixes[i][5] + 7) \div 8) :
                    d.prefixes[i][k] = prefixes[i][k]

\* C9: in OPEN_CONFIRM, processing a KEEPALIVE makes the state ESTABLISHED and
\* writes one UPDATE holding all originated prefixes when there are any, and
\* nothing when there are none; no session writes more than one UPDATE.
C9_KeepaliveInOpenConfirm ==
    [][ \A s \in SessIds :
          /\ \A f \in Inputs :
                (/\ ses[s].rpc = "read" /\ ses[s].state = "OPEN_CONFIRM"
                 /\ ses'[s] # ses[s]
                 /\ FailureKind(f) = "none" /\ f.type = KEEPALIVE
                 /\ Recv(s, f))
                   => /\ ses'[s].state = "ESTABLISHED"
                      /\ IF originated_prefixes # <<>>
                         THEN /\ Len(ses'[s].sent) = Len(ses[s].sent) + 1
                              /\ SubSeq(ses'[s].sent, 1, Len(ses[s].sent)) = ses[s].sent
                              /\ ses'[s].sent[Len(ses'[s].sent)].msg_type = UPDATE
                              /\ NlriHolds(ses'[s].sent[Len(ses'[s].sent)].nlri,
                                           originated_prefixes)
                         ELSE ses'[s].sent = ses[s].sent
          /\ ses'[s].sent # ses[s].sent => CountType(ses'[s].sent, UPDATE) <= 1 ]_vars

\* an ESTABLISHED session that has written its UPDATE
C9_Witness ==
    \E s \in SessIds :
        /\ ses[s].state = "ESTABLISHED"
        /\ CountType(ses[s].sent, UPDATE) = 1

\* C10: with the timers armed, every processed message sets the event that
\* re-arms the Hold watchdog for a full negotiated_hold_time, so the watchdog
\* expires only when no message was processed for negotiated_hold_time; and
\* when no message is processed for that long the session writes
\* NOTIFICATION(4,0) and its state becomes IDLE.
C10_HoldWatchdog ==
    /\ [][ \A s \in SessIds :
             /\ \A f \in Inputs :
                   (/\ ses[s].rpc = "read" /\ ses'[s].hpc = "wait"
                    /\ ses'[s] # ses[s]
                    /\ FailureKind(f) = "none"
                    /\ Recv(s, f))
                      => ses'[s].hold_timer_reset_event
             /\ (ses[s].hpc = "wait" /\ ses[s].hold_timer_reset_event /\ HoldArm(s))
                   => /\ ses'[s].hpc = "wait"
                      /\ ses'[s].hold_elapsed = 0
                      /\ ses'[s].idle_ticks = 0
             /\ (ses[s].hpc = "wait" /\ ses'[s].hpc = "drain" /\ HoldExpire(s))
                   => /\ ses[s].negotiated_hold_time > 0
                      /\ ses[s].idle_ticks >= ses[s].negotiated_hold_time
                      /\ IsNotification(ses'[s].sent[Len(ses'[s].sent)], 4, 0)
             /\ ses'[s].hpc = "wait"
                   => ses'[s].idle_ticks <= ses'[s].negotiated_hold_time
             /\ ses'[s].hpc = "done"
                   => /\ ses'[s].state = "IDLE"
                      /\ \E i \in 1..Len(ses'[s].sent) :
                            IsNotification(ses'[s].sent[i], 4, 0) ]_vars
    /\ \A s \in SessIds :
          (/\ ses[s].hpc = "wait"
           /\ ~ses[s].hold_timer_reset_event
           /\ ses[s].idle_ticks >= ses[s].negotiated_hold_time)
             ~> (ses[s].state = "IDLE" \/ ses[s].hold_timer_reset_event)

\* the watchdog was re-armed by a message, later expired, and closed the session
C10_Witness ==
    \E s \in SessIds :
        /\ ses[s].hpc = "done"
        /\ ses[s].state = "IDLE"
        /\ ses[s].msgs_received >= 2
        /\ IsNotification(ses[s].sent[Len(ses[s].sent)], 4, 0)

\* C11: in OPEN_SENT every processed message other than OPEN and NOTIFICATION,
\* and in OPEN_CONFIRM every processed message other than KEEPALIVE and
\* NOTIFICATION, makes the session write NOTIFICATION(5,1); when that send
\* has completed the session is closed and its state is IDLE.
C11_UnexpectedSendsFsmError ==
    [][ \A s \in SessIds :
          /\ \A f \in Inputs :
                (/\ ses[s].rpc = "read"
                 /\ ses'[s] # ses[s]
                 /\ FailureKind(f) = "none"
                 /\ \/ ses[s].state = "OPEN_SENT" /\ f.type \notin {OPEN, NOTIFICATION}
                    \/ ses[s].state = "OPEN_CONFIRM" /\ f.type \notin {KEEPALIVE, NOTIFICATION}
                 /\ Recv(s, f))
                   => /\ ses'[s].rpc = "drain_notif_fsm"
                      /\ ses'[s].sent = Append(ses[s].sent, NotificationMessage(5, 1))
          /\ (ses[s].rpc = "drain_notif_fsm" /\ ses'[s].rpc # "drain_notif_fsm")
                => IsClosed(ses'[s]) ]_vars

\* C12: the session table holds no closed session: a session whose stream
\* was closed and whose state is IDLE has no entry in the table.
C12_ClosedSessionRemoved ==
    \A ip \in IPs :
        sessions[ip] # 0
           => ~(ses[sessions[ip]].writer_closes >= 1 /\ ses[sessions[ip]].state = "IDLE")

\* C13: when the listener handles a connection from an address that is not a
\* configured peer or that has an entry in the table, it closes the new
\* stream and leaves the table and every session unchanged; no session is
\* ever created for an address that is not a configured peer.
C13_RejectLeavesAll ==
    [][ /\ \A ip \in IPs :
              ((sessions[ip] # 0 \/ ip \notin peers) /\ handle_client(ip))
                 => /\ rejected'
                    /\ sessions' = sessions
                    /\ ses' = ses
        /\ \A s \in SessIds : ses'[s].created => ses'[s].peer_ip \in peers ]_vars

\* the listener has rejected a connection and the session of the configured
\* peer is ESTABLISHED and has processed messages
C13_Witness ==
    /\ rejected
    /\ \E ip \in IPs :
          /\ sessions[ip] # 0
          /\ ses[sessions[ip]].state = "ESTABLISHED"
          /\ ses[sessions[ip]].msgs_received >= 2

\* C14: at the top of its loop the dialer sleeps exactly when the table has a
\* session for the peer whose state is not IDLE, and otherwise goes on to
\* connect.
C14_DialerSkipsIffNotIdle ==
    [][ \A ip \in PeerIPs :
          (ip \in peers /\ DialTop(ip))
             => /\ dialer'[ip] \in {"sleep_exists", "connecting"}
                /\ dialer'[ip] = "sleep_exists"
                      <=> (IF sessions[ip] = 0 THEN FALSE
                           ELSE ses[sessions[ip]].state # "IDLE") ]_vars

\* the table has a session for ip that the dialer created
DialerSession(ip) ==
    IF sessions[ip] = 0 THEN FALSE ELSE ses[sessions[ip]].owner = "dialer"

\* C15: a failed connect sends the dialer to its 5 s sleep and from there
\* back to the top of its loop; the dialer task has exited only when a session
\* it created has ended; and when connects that can succeed again and again
\* do succeed, the table gets an attached session for the peer.
C15_DialerRetries ==
    /\ [][ \A ip \in PeerIPs :
             ip \in peers
                => /\ (dialer[ip] = "connecting" /\ DialFailed(ip))
                         => dialer'[ip] = "sleep_fail"
                   /\ (dialer[ip] = "sleep_fail" /\ dialer'[ip] # "sleep_fail")
                         => dialer'[ip] = "top"
                   /\ dialer'[ip] = "session"
                         => DialerSession(ip)' /\ ses'[sessions'[ip]].rpc # "done"
                   /\ dialer'[ip] = "exited"
                         => DialerSession(ip)' /\ ses'[sessions'[ip]].rpc = "done" ]_vars
    /\ \A ip \in PeerIPs :
          (ip \in peers)
             ~> (IF sessions[ip] = 0 THEN FALSE ELSE ses[sessions[ip]].writer)

\* the dialer task has exited after the session it created was ESTABLISHED
\* and ended
C15_Witness ==
    \E ip \in PeerIPs :
        /\ ip \in peers
        /\ dialer[ip] = "exited"
        /\ DialerSession(ip)
        /\ ses[sessions[ip]].msgs_received >= 2
        /\ ses[sessions[ip]].state = "IDLE"

\* C16: once a session has written a NOTIFICATION to its stream it writes no
\* further message to it and its state changes only to IDLE (taken up to the
\* close of the stream).
C16_NotificationIsLast ==
    [][ \A s \in SessIds :
          (/\ ses[s].sent # <<>>
           /\ ses[s].sent[Len(ses[s].sent)].msg_type = NOTIFICATION
           /\ ses[s].writer_closes = 0)
             => /\ ses'[s].sent = ses[s].sent
                /\ ses'[s].state # ses[s].state => ses'[s].state = "IDLE" ]_vars

\* the row show_neighbors reports for session r
RowOf(row, r) ==
    /\ row.state = r.state
    /\ row.remote_as = (IF r.remote_as = None THEN 0 ELSE r.remote_as)
    /\ row.msgs_sent = r.msgs_sent
    /\ row.msgs_received = r.msgs_received
    /\ row.uptime = "N/A" <=> r.state # "ESTABLISHED"

\* C17: the response to show_neighbors has one row per session of the table,
\* each with that session's state, remote_as and counters as they are when
\* the request is handled, and with uptime "N/A" exactly when the state is not
\* ESTABLISHED; a session whose Hold watchdog has expired is still in the table.
C17_ShowNeighbors ==
    [][ /\ (mgmt.pc = "idle" /\ mgmt'.pc = "drain"
            /\ mgmt'.request = Request("object", "show_neighbors"))
              => /\ Len(mgmt'.written) = 1
                 /\ mgmt'.written[1].status = "success"
                 /\ Len(mgmt'.written[1].data) = Cardinality({ip \in IPs : sessions[ip] # 0})
                 /\ \A ip \in IPs :
                       sessions[ip] # 0
                          => \E i \in 1..Len(mgmt'.written[1].data) :
                                RowOf(mgmt'.written[1].data[i], ses[sessions[ip]])
        /\ \A s \in SessIds :
              ses'[s].hpc = "done" => sessions'[ses'[s].peer_ip] = s ]_vars

\* show_neighbors answered after a hold-timer expiry: the row has state IDLE
\* and uptime "N/A"
C17_Witness ==
    /\ mgmt.pc = "drain"
    /\ mgmt.request = Request("object", "show_neighbors")
    /\ \E s \in SessIds :
          /\ ses[s].hpc = "done"
          /\ Len(mgmt.written[1].data) = 1
          /\ mgmt.written[1].data[1].state = "IDLE"
          /\ mgmt.written[1].data[1].uptime = "N/A"
          /\ mgmt.written[1].data[1].msgs_received = ses[s].msgs_received

\* the response the claim gives for a request
Answers(req, resp) ==
    IF req.kind = "object"
          /\ req.command \in {"show_neighbors", "show_routes_received",
                              "show_routes_advertised"}
    THEN resp.status = "success"
    ELSE IF req.kind = "object"
    THEN resp = [status |-> "error", message |-> "Unknown command"]
    ELSE resp.status = "error"

WholeBytes(p) == \A k \in ((p[5] + 7) \div 8 + 1)..4 : p[k] = 0

\* p with the bytes after the first ceil(len/8) set to zero
Truncated(p) ==
    [k \in 1..5 |-> IF k <= 4 /\ k > (p[5] + 7) \div 8 THEN 0 ELSE p[k]]

\* C19 as stated: for every list of prefixes, decoding the encoded list gives
\* the list back.
C19_NlriRoundTrip ==
    codec.pc = "decoded"
       => codec.decoded.ok /\ codec.decoded.prefixes = codec.prefixes

\* C19: decoding the encoded list gives, in the same order, every prefix
\* with the address bytes after the first ceil(len/8) set to zero; so the
\* list comes back unchanged when those bytes are zero in all its prefixes.
C19_NlriRoundTripWholeBytes ==
    codec.pc = "decoded"
       => /\ codec.decoded.ok
          /\ Len(codec.decoded.prefixes) = Len(codec.prefixes)
          /\ \A i \in 1..Len(codec.prefixes) :
                codec.decoded.prefixes[i] = Truncated(codec.prefixes[i])
          /\ (\A i \in 1..Len(codec.prefixes) : WholeBytes(codec.prefixes[i]))
                => codec.decoded.prefixes = codec.prefixes

\* 10.1.2.129/25 and 0.0.0.0/0 came back from the round trip
C19_Witness ==
    /\ codec.pc = "decoded"
    /\ codec.prefixes = << <<10, 1, 2, 129, 25>>, <<0, 0, 0, 0, 0>> >>
    /\ codec.decoded.prefixes = codec.prefixes

\* C20: an OPEN, NOTIFICATION or UPDATE that is packed, stripped of its header
\* by BGPHeader.unpack and unpacked by its own unpack comes back with the
\* same fields, and the header carries the type code of the message.
C20_BodyRoundTrip ==
    codec.pc = "unpacked"
       => /\ codec.out.ok
          /\ codec.out.msg = codec.msg
          /\ codec.type = codec.msg.msg_type

\* a NOTIFICATION with data and an UPDATE with all three fields came back
C20_Witness ==
    /\ codec.pc = "unpacked"
    /\ codec.out.msg = codec.msg
    /\ \/ codec.msg.msg_type = NOTIFICATION /\ codec.msg.data = <<69, 114, 114>>
       \/ /\ codec.msg.msg_type = UPDATE
          /\ codec.msg.withdrawn_routes # <<>>
          /\ codec.msg.path_attributes # <<>>
          /\ codec.msg.nlri # <<>>

\* C21: BGPHeader.pack(t, p) is 19 + len(p) bytes long, begins with sixteen
\* 0xFF bytes, carries its own total length in the next two bytes and t in
\* the byte after them, and BGPHeader.unpack of it returns type t, length
\* 19 + len(p) and payload p; unpack fails on a buffer shorter than 19 bytes
\* and on one whose first sixteen bytes are not all 0xFF.
C21_HeaderFraming ==
    /\ codec.pc = "unframed"
          => /\ Len(codec.data) = 19 + Len(codec.payload)
             /\ \A i \in 1..16 : codec.data[i] = 255
             /\ codec.data[17] * 256 + codec.data[18] = Len(codec.data)
             /\ codec.data[19] = codec.type
             /\ codec.header.ok
             /\ codec.header.type = codec.type
             /\ codec.header.length = 19 + Len(codec.payload)
             /\ codec.header.payload = codec.payload
    /\ (/\ codec.pc \in {"unframed", "scanned"}
        /\ \/ Len(codec.data) < 19
           \/ \E i \in 1..16 : codec.data[i] # 255)
          => ~codec.header.ok

\* a payload of 300 bytes came back from the header round trip with type 255
C21_Witness ==
    /\ codec.pc = "unframed"
    /\ Len(codec.payload) = 300
    /\ codec.type = 255
    /\ codec.header.ok
    /\ codec.header.payload = codec.payload

\* unpack refused a 23-byte buffer whose sixteenth byte is 0xFE
C21_Refused ==
    /\ codec.pc = "scanned"
    /\ Len(codec.data) = 23
    /\ codec.data[16] = 254
    /\ ~codec.header.ok

\* C22: when a header whose marker is not sixteen 0xFF bytes is read, the
\* session writes NOTIFICATION(1,1) and nothing else in that step, without
\* counting a received message, feeding the FSM or closing; when the write
\* has been dealt with the receive loop closes the session and ends, with the
\* state IDLE and still no message counted.
C22_BadMarker ==
    [][ \A s \in SessIds :
        /\ (ses[s].rpc = "read" /\ ses'[s].rpc # "read"
             /\ \E f \in Inputs : f.ev = "frame" /\ ~f.marker_ok /\ Recv(s, f))
              => /\ ses'[s].rpc = "drain_notif_header"
                 /\ ses'[s].sent = Append(ses[s].sent, NotificationMessage(1, 1))
                 /\ ses'[s].msgs_received = ses[s].msgs_received
                 /\ ses'[s].hold_timer_reset_event = ses[s].hold_timer_reset_event
                 /\ ses'[s].state = ses[s].state
                 /\ ses'[s].adj_rib_in = ses[s].adj_rib_in
                 /\ ses'[s].writer_closes = ses[s].writer_closes
        /\ (ses[s].rpc = "drain_notif_header" /\ ses'[s].rpc # "drain_notif_header")
              => /\ ses'[s].rpc = "done"
                 /\ ses'[s].state = "IDLE"
                 /\ ses'[s].writer_closes >= 1
                 /\ ses'[s].msgs_received = ses[s].msgs_received
                 /\ ses'[s].adj_rib_in = ses[s].adj_rib_in
        /\ ses[s].rpc = "drain_notif_header"
              => ses'[s].msgs_received = ses[s].msgs_received ]_vars

\* a session that had processed two messages read a bad header, wrote
\* NOTIFICATION(1,1) last, and ended closed
C22_Witness ==
    \E s \in SessIds :
        /\ ses[s].rpc = "done"
        /\ ses[s].msgs_received = 2
        /\ ses[s].sent # <<>>
        /\ IsNotification(ses[s].sent[Len(ses[s].sent)], 1, 1)
        /\ ses[s].state = "IDLE"
        /\ ses[s].writer_closes = 1

\* C23: a session's state changes only from IDLE to OPEN_SENT when the
\* stream is attached to the new session object, from OPEN_SENT to
\* OPEN_CONFIRM when the KEEPALIVE answering a received OPEN has been
\* written, from OPEN_CONFIRM to ESTABLISHED when a KEEPALIVE is received,
\* and from any state to IDLE when close_connection runs; the state is never
\* CONNECT or ACTIVE, and once the session was closed it stays IDLE.
C23_StateTransitions ==
    [][ \A s \in SessIds :
        /\ ses'[s].state \notin {"CONNECT", "ACTIVE"}
        /\ ses[s].writer_closes >= 1 => ses[s].state = "IDLE" /\ ses'[s].state = "IDLE"
        /\ ses'[s].state # ses[s].state =>
              \/ /\ ses[s].state = "IDLE" /\ ses'[s].state = "OPEN_SENT"
                 /\ ~ses[s].created /\ ses'[s].created
                 /\ ses[s].rpc = "none"
              \/ /\ ses[s].state = "OPEN_SENT" /\ ses'[s].state = "OPEN_CONFIRM"
                 /\ ses[s].rpc = "drain_keepalive"
                 /\ ses[s].msgs_received >= 1
              \/ /\ ses[s].state = "OPEN_CONFIRM" /\ ses'[s].state = "ESTABLISHED"
                 /\ ses'[s].msgs_received = ses[s].msgs_received + 1
                 /\ \E f \in Inputs : f.type = KEEPALIVE /\ Decodes(f) /\ Recv(s, f)
              \/ /\ ses'[s].state = "IDLE"
                 /\ ses'[s].writer_closes = ses[s].writer_closes + 1
        /\ (ses[s].rpc # "drain_keepalive" /\ ses'[s].rpc = "drain_keepalive")
              => /\ ses[s].state = "OPEN_SENT"
                 /\ \E f \in Inputs : f.type = OPEN /\ Decodes(f) /\ Recv(s, f)
        /\ ses[s].created => ses'[s].created /\ ses'[s].rpc # "none" ]_vars

\* a session went through OPEN_SENT, OPEN_CONFIRM and ESTABLISHED and was
\* then closed
C23_Witness ==
    \E s \in SessIds :
        /\ ses[s].state = "IDLE"
        /\ ses[s].writer_closes >= 1
        /\ ses[s].msgs_received >= 2
        /\ CountType(ses[s].sent, UPDATE) = 1

\* the types of the messages of sent, in order
Types(sent) == [i \in 1..Len(sent) |-> sent[i].msg_type]

\* the position of the first message of type t in sent, 0 when there is none
FirstOf(sent, t) ==
    IF \E i \in 1..Len(sent) : sent[i].msg_type = t
    THEN CHOOSE i \in 1..Len(sent) :
            /\ sent[i].msg_type = t
            /\ \A j \in 1..(i - 1) : sent[j].msg_type # t
    ELSE 0

\* C24: on every session the first message written is the OPEN; a KEEPALIVE
\* is written only after the peer's OPEN was processed; an UPDATE is written
\* only after the session's first KEEPALIVE was written and a KEEPALIVE was
\* received; and when neither timer has written anything the messages
\* written up to the UPDATE are OPEN, KEEPALIVE, UPDATE in that order.
C24_EmissionOrder ==
    \A s \in SessIds :
        LET sent == ses[s].sent
        IN  /\ sent # <<>> => sent[1].msg_type = OPEN
            /\ FirstOf(sent, KEEPALIVE) # 0
                  => /\ ses[s].open_hold # None
                     /\ ses[s].msgs_received >= 1
                     /\ ses[s].remote_as # None
            /\ FirstOf(sent, UPDATE) # 0
                  => /\ FirstOf(sent, KEEPALIVE) # 0
                     /\ FirstOf(sent, KEEPALIVE) < FirstOf(sent, UPDATE)
                     /\ ses[s].msgs_received >= 2
            /\ (/\ FirstOf(sent, UPDATE) # 0
                /\ CountType(sent, KEEPALIVE) = 1
                /\ CountType(sent, NOTIFICATION) = 0)
                  => Types(sent) = <<OPEN, KEEPALIVE, UPDATE>>

\* a session wrote OPEN, KEEPALIVE, UPDATE and is ESTABLISHED with its
\* timers running
C24_Witness ==
    \E s \in SessIds :
        /\ Types(ses[s].sent) = <<OPEN, KEEPALIVE, UPDATE>>
        /\ ses[s].state = "ESTABLISHED"
        /\ ses[s].kpc = "sleep"
        /\ ses[s].msgs_sent = 3

NoSendInProgress(r) ==
    r.rpc \notin RecvDrains /\ r.kpc # "drain" /\ r.hpc # "drain"

\* C26: every message a session writes increments msgs_sent by exactly 1 and
\* every decoded message increments msgs_received by 1 and sets the
\* Hold-reset event, in every state; whenever no send is in progress
\* msgs_sent is the number of messages written; no counter ever decreases.
C26_CountersCountMessages ==
    [][ \A s \in SessIds :
        /\ ses'[s].msgs_sent >= ses[s].msgs_sent
        /\ ses'[s].msgs_received >= ses[s].msgs_received
        /\ (ses[s].rpc = "read" /\ ses'[s].msgs_received # ses[s].msgs_received)
              => /\ ses'[s].msgs_received = ses[s].msgs_received + 1
                 /\ ses'[s].hold_timer_reset_event
        /\ NoSendInProgress(ses'[s]) => ses'[s].msgs_sent = Len(ses'[s].sent) ]_vars

\* the part of C26 about received messages: a step of the receive loop on a
\* message that decodes adds 1 to msgs_received and sets the Hold-reset
\* event, in every state, and no other step changes msgs_received
C26_ReceivedCounted ==
    [][ \A s \in SessIds :
        /\ ses'[s].msgs_sent >= ses[s].msgs_sent
        /\ ses'[s].msgs_sent <= Len(ses'[s].sent)
        /\ ses'[s].msgs_received # ses[s].msgs_received
              => /\ ses'[s].msgs_received = ses[s].msgs_received + 1
                 /\ ses'[s].hold_timer_reset_event
                 /\ ses[s].rpc = "read" ]_vars

\* C27: a step of a task of session A (a receive, a send, a timer expiry,
\* a close) leaves every other session B's state, stream, timers, counters
\* and Adj-RIB-In as they were, and leaves the session table, B's entry
\* included, unchanged.
C27_SessionConfinement ==
    [][ \A a \in SessIds :
        (ses[a].created /\ ses'[a] # ses[a])
          => /\ \A b \in SessIds \ {a} : ses'[b] = ses[b]
             /\ sessions' = sessions ]_vars

\* one session is ESTABLISHED with its timers running and untouched by the
\* close of the other, whose receive loop has ended
C27_Witness ==
    \E a, b \in SessIds :
        /\ a # b
        /\ ses[a].state = "ESTABLISHED"
        /\ ses[a].kpc = "sleep"
        /\ ses[a].writer_closes = 0
        /\ ses[b].created
        /\ ses[b].rpc = "done"
        /\ ses[b].writer_closes = 1
        /\ sessions[ses[a].peer_ip] = a
        /\ sessions[ses[b].peer_ip] = b

\* C28: handling a management request changes neither the session table
\* nor any field of any session, and the rows of a response are the fields
\* the sessions of the table have at the one step that writes the response.
C28_MgmtReadOnly ==
    [][ mgmt' # mgmt =>
          /\ sessions' = sessions
          /\ ses' = ses
          /\ originated_prefixes' = originated_prefixes
          /\ (mgmt'.pc = "drain" /\ mgmt'.request.command = "show_neighbors")
                => mgmt'.written[1].data = Neighbors
          /\ (mgmt'.pc = "drain" /\ mgmt'.request.command = "show_routes_received")
                => mgmt'.written[1].data = ReceivedRoutes(SessionsValues(TableIds))
          /\ (mgmt'.pc = "drain" /\ mgmt'.request.command = "show_routes_advertised")
                => mgmt'.written[1].data = originated_prefixes ]_vars

\* show_routes_received was answered with the one route of an ESTABLISHED
\* session, which still has it
C28_Witness ==
    /\ mgmt.pc = "drain"
    /\ mgmt.request = Request("object", "show_routes_received")
    /\ Len(mgmt.written[1].data) = 1
    /\ \E s \in SessIds :
          /\ sessions[ses[s].peer_ip] = s
          /\ ses[s].state = "ESTABLISHED"
          /\ Len(ses[s].adj_rib_in) = 1
          /\ mgmt.written[1].data[1].prefix = ses[s].adj_rib_in[1].prefix

\* C29: every message handed to the FSM came with a header length between
\* 19 and 4096; a header whose length is below 19 or above 4096 is never
\* decoded and processed.
C29_LengthInRange ==
    [][ \A s \in SessIds :
        (ses[s].rpc = "read" /\ ses'[s].msgs_received = ses[s].msgs_received + 1)
          => \A f \in Inputs :
                (f.ev = "frame" /\ Recv(s, f)) => (19 <= f.length /\ f.length <= 4096) ]_vars

\* C30: once close_connection has run on a session, no task of that session
\* (the receive loop on input that arrives later, the KeepAlive emitter, the
\* Hold watchdog) writes a message to its stream again.
C30_NoWriteAfterClose ==
    [][ \A s \in SessIds :
        ses[s].writer_closes >= 1 => ses'[s].sent = ses[s].sent ]_vars

====
